---------------------------- MODULE Spec2Model ----------------------------
(***************************************************************************)
(* A model of the live frame-dispatch client of vlm-playground             *)
(* (demo_apps/live_object_detection_app.py) and of its coordinate          *)
(* normaliser _to_xy (also demo_apps/draw_point.py).                       *)
(*                                                                         *)
(* Python values that travel through the program (JSON payloads, point     *)
(* records, None) are tagged records [t |-> kind, v |-> value].            *)
(* Coordinates are Python floats; they are modelled exactly as integers    *)
(* counting units of 1/Den.                                                *)
(***************************************************************************)
EXTENDS Integers, Sequences, FiniteSets, TLC

VARIABLES
    \* --- CameraPointApp fields and Tk variables
    pc_main,          \* where the Tk main thread is: ctor_render, ctor_send, mainloop, closed
    tick_scheduled,   \* a call of _schedule_render is pending (ctor call or master.after(16, ...))
    running,          \* self.running
    cap_open,         \* self.cap has not been released
    api_var,          \* self.api_var
    endpoint_var,     \* self.endpoint_var
    label_var,        \* self.label_var
    length_var,       \* self.length_var
    status_var,       \* self.status_var
    in_flight,        \* self.in_flight
    last_points,      \* self.last_points
    last_caption,     \* self.last_caption
    current_frame,    \* self.current_frame (NoFrame while the attribute does not exist)
    last_frame_size,  \* self.last_frame_size
    canvas,           \* the image self.canvas shows
    edits,            \* the number of edits the user has made
    workers,          \* the worker threads started and not yet ended
    \* --- the coordinate normaliser applied to one record
    xy_p,             \* the point record
    xy_size,          \* the image size (W, H)
    xy_res,           \* the outcome of _to_xy(xy_p, xy_size), NotRun before the call
    xy_drawn          \* a batch of records and what the overlay drew for it, NotRun before

appvars == <<pc_main, tick_scheduled, running, cap_open, api_var, endpoint_var,
             label_var, length_var, status_var, in_flight, last_points,
             last_caption, current_frame, last_frame_size, canvas, workers, edits>>
xyvars == <<xy_p, xy_size, xy_res, xy_drawn>>
vars == <<appvars, xyvars>>

-----------------------------------------------------------------------------
(* Bounds of the model *)

\* Coordinates are multiples of 1/Den.
Den == 4

\* The user makes at most MaxEdits edits of the API, feature, label and length
\* fields in a session.
MaxEdits == 2

-----------------------------------------------------------------------------
(* Python values *)

None == [t |-> "null"]
Num(n) == [t |-> "num", v |-> n]          \* a number, n in units of 1/Den
Str(s) == [t |-> "str", v |-> s]
List(s) == [t |-> "list", v |-> s]
Dict(f) == [t |-> "dict", v |-> f]

PyMax(a, b) == IF b > a THEN b ELSE a      \* max(a, b)
PyMin(a, b) == IF b < a THEN b ELSE a      \* min(a, b)

\* d.get(k, default) of a dict
Get(d, k, default) == IF k \in DOMAIN d.v THEN d.v[k] ELSE default

-----------------------------------------------------------------------------
(* _to_xy *)

Raised(e) == [ok |-> FALSE, err |-> e]
Point(x, y) == [ok |-> TRUE, x |-> x, y |-> y]

\* float(v): the value, or the exception float() raises
FloatOf(v) ==
    CASE v.t = "num" -> [ok |-> TRUE, v |-> v.v]
      [] v.t = "str" -> Raised("ValueError")
      [] OTHER -> Raised("TypeError")

\* a strict comparison in the test of line 53
IsNormalized_strict(x, y) == PyMax(x, y) < Den

\* the test of line 53
IsNormalized(x, y) == PyMax(x, y) <= Den

\* a clamp to [0, dim] instead of [0, dim - 1]
Clamp_to_dim(v, dim) == PyMax(0, PyMin(v, dim * Den))

\* lines 56-57: clamp one axis to [0, dim - 1]
Clamp(v, dim) == PyMax(0, PyMin(v, (dim - 1) * Den))

\* lines 45-46
Unwrap(p) ==
    IF "point" \in DOMAIN p.v /\ p.v["point"].t = "dict" THEN p.v["point"] ELSE p

to_xy(p0, image_size) ==
    IF p0.t # "dict"
    THEN Raised(IF p0.t \in {"str", "list"} THEN "AttributeError" ELSE "TypeError")
    ELSE
    LET p == Unwrap(p0)
        x == Get(p, "x", Get(p, "cx", Get(p, "px", None)))
        y == Get(p, "y", Get(p, "cy", Get(p, "py", None)))
    IN  IF x = None \/ y = None THEN Raised("ValueError: Unsupported point format")
        ELSE
        LET fx == FloatOf(x)
            fy == FloatOf(y)
        IN  IF ~fx.ok THEN fx
            ELSE IF ~fy.ok THEN fy
            ELSE
            LET W == image_size[1]
                H == image_size[2]
                norm == IsNormalized(fx.v, fy.v)
                sx == IF norm THEN fx.v * W ELSE fx.v
                sy == IF norm THEN fy.v * H ELSE fy.v
            IN  Point(Clamp(sx, W), Clamp(sy, H))


-----------------------------------------------------------------------------
(* Values of the application *)

\* api_var: a base address and the number of "/" that end it
Api(base, slashes) == [base |-> base, slashes |-> slashes]
DefaultApi == Api("http://localhost:9999", 0)
Apis == {DefaultApi, Api("http://gpu-box:9999", 1)}
Endpoints == {"point", "caption"}
Labels == {"human", "dog"}
Lengths == {"short", "normal"}

\* a pixel buffer: the picture id of W x H pixels; ink tells that an overlay has
\* been drawn on the buffer.  cap.read() delivers a new buffer without any
Frame(id, W, H) == [id |-> id, W |-> W, H |-> H, ink |-> FALSE]
Frames == {Frame(1, 640, 480), Frame(2, 320, 240)}
NoFrame == Frame(0, 0, 0)

\* the texts of status_var
St(kind, n, msg) == [kind |-> kind, n |-> n, msg |-> msg]
StIdle == St("Idle", 0, "")
StSending == St("Sending", 0, "")
StBootstrapping == St("Bootstrapping", 0, "")
StCameraFailed == St("Camera read failed", 0, "")
StOkPoints(n) == St("OK points", n, "")
StOkCaption == St("OK (caption)", 0, "")
StError(msg) == St("Error", 0, msg)

\* point records
Rec(kx, x, ky, y) == Dict((kx :> Num(x)) @@ (ky :> Num(y)))
RecCenter == Rec("x", Den \div 2, "y", Den \div 2)       \* {"x": 0.5, "y": 0.5}
RecFar == Rec("cx", 700 * Den, "cy", 10 * Den)           \* {"cx": 700, "cy": 10}
RecNoY == Dict("x" :> Num(Den))                          \* {"x": 1}

\* r.json() of a /point response
PointsA == List(<<RecCenter>>)
PointsB == List(<<RecNoY, RecFar>>)
PointData == { Dict("points" :> PointsA),            \* {"points": [...]}
               PointsB,                              \* a bare list
               Dict("detail" :> Str("bad label")),   \* an object without "points"
               Num(5 * Den),                         \* 5
               None }                                \* null
\* r.json() of a /caption response
CaptionData == { Dict("caption" :> Str("a cat")),
                 Dict("detail" :> Str("bad length")), \* an object without "caption"
                 Dict("caption" :> Num(5 * Den)),     \* {"caption": 5}
                 List(<<>>) }                         \* []
\* what requests.post, raise_for_status and r.json() raise
ClientErrors == {"Read timed out", "Expecting value"}

\* bool(v)
Truthy(v) ==
    CASE v.t = "null" -> FALSE
      [] v.t = "num" -> v.v # 0
      [] v.t = "str" -> v.v # ""
      [] v.t = "list" -> Len(v.v) > 0
      [] v.t = "dict" -> DOMAIN v.v # {}

HasLen(v) == v.t \in {"list", "dict"}
PyLen(v) == IF v.t = "list" THEN Len(v.v) ELSE Cardinality(DOMAIN v.v)

RECURSIVE SeqOfSet(_)
SeqOfSet(S) ==
    IF S = {} THEN <<>>
    ELSE LET k == CHOOSE k \in S : TRUE IN <<Str(k)>> \o SeqOfSet(S \ {k})

\* the elements a for loop over v visits (a dict yields its keys)
IsIterable(v) == v.t \in {"list", "dict"}
Items(v) == IF v.t = "list" THEN v.v ELSE SeqOfSet(DOMAIN v.v)

-----------------------------------------------------------------------------
(* The server interaction: _post_point, _post_caption *)

\* f"{api_base.rstrip('/')}/<path>"
Url(api, path) == [base |-> api.base, slashes |-> 0, path |-> path]

\* the request a worker's closure makes requests.post send
RequestOf(w) ==
    IF w.ep = "point"
    THEN [url |-> Url(w.api, "/point"), field |-> "label", value |-> w.label,
          file |-> w.img, overlay |-> w.ink]
    ELSE [url |-> Url(w.api, "/caption"), field |-> "length", value |-> w.length,
          file |-> w.img, overlay |-> w.ink]
NoRequest == [url |-> Url(Api("", 0), ""), field |-> "", value |-> "", file |-> 0,
              overlay |-> FALSE]

\* line 25: what _post_point returns for r.json() = data
post_point(data) ==
    IF data.t = "dict" /\ "points" \in DOMAIN data.v THEN data.v["points"] ELSE data

\* line 38: what _post_caption returns for r.json() = data, or the exception of data.get
post_caption(data) ==
    IF data.t = "dict" THEN [ok |-> TRUE, v |-> Get(data, "caption", Str(""))]
    ELSE Raised("object has no attribute 'get'")

-----------------------------------------------------------------------------
(* The overlay: _draw_points and the caption branch of _render *)

Mark(x, y, label) == [x |-> x, y |-> y, label |-> label]
Image(frame, marks, text) == [frame |-> frame, marks |-> marks, text |-> text]
NoImage == Image(0, <<>>, "")

\* the loop of line 230 without the try of line 231: a record that fails ends the loop
draw_points_unguarded(frame, points, label) ==
    IF ~Truthy(points) THEN [ok |-> TRUE, marks |-> <<>>]
    ELSE IF ~IsIterable(points) THEN Raised("TypeError: object is not iterable")
    ELSE
    LET items == Items(points)
        res == [i \in 1..Len(items) |-> to_xy(items[i], <<frame.W, frame.H>>)]
    IN  IF \E i \in 1..Len(items) : ~res[i].ok
        THEN Raised("ValueError: Unsupported point format")
        ELSE [ok |-> TRUE, marks |-> [i \in 1..Len(res) |-> Mark(res[i].x, res[i].y, label)]]

\* lines 222-277: the marks drawn, or the exception that escapes the loop
draw_points(frame, points, label) ==
    IF ~Truthy(points) THEN [ok |-> TRUE, marks |-> <<>>]
    ELSE IF ~IsIterable(points) THEN Raised("TypeError: object is not iterable")
    ELSE
    LET items == Items(points)
        res == [i \in 1..Len(items) |-> to_xy(items[i], <<frame.W, frame.H>>)]
        good == SelectSeq(res, LAMBDA r : r.ok)
    IN  [ok |-> TRUE, marks |-> [i \in 1..Len(good) |-> Mark(good[i].x, good[i].y, label)]]

\* int(v) of a float v counted in units of 1/Den: truncation towards zero
Trunc(v) == IF v >= 0 THEN v \div Den ELSE -((-v) \div Den)

\* cv2.getTextSize(label, FONT_HERSHEY_SIMPLEX, 0.5, 1): the width grows with
\* the text, the height is the font's
TextSize(text) == [w |-> 9 * Len(text), h |-> 11]

\* line 234: size = max(4, int(min(W, H) * 0.01))
MarkerSize(W, H) == PyMax(4, PyMin(W, H) \div 100)

\* lines 234-273: the pixel coordinates of the drawing calls made for the point
\* (m.x, m.y) of a W x H frame: the two strokes of the marker (cv2.line), the
\* label's background box (cv2.rectangle) and the text anchor (cv2.putText)
Strokes(m, W, H) ==
    LET size == MarkerSize(W, H) * Den
        tx == Trunc(m.x + 12 * Den)
        ty == Trunc(m.y - 12 * Den)
        ts == TextSize(m.label)
        pad == 4
    IN  [line1 |-> <<Trunc(m.x - size), Trunc(m.y - size), Trunc(m.x + size), Trunc(m.y + size)>>,
         line2 |-> <<Trunc(m.x - size), Trunc(m.y + size), Trunc(m.x + size), Trunc(m.y - size)>>,
         box |-> <<PyMax(0, tx - pad), PyMax(0, ty - ts.h - pad),
                   PyMin(W - 1, tx + ts.w + pad), PyMin(H - 1, ty + pad)>>,
         anchor |-> <<tx, ty>>]

\* draw_point.py, lines 57-65: the points show_with_points collects from a batch
show_with_points(size, points) ==
    LET items == IF Truthy(points) THEN Items(points) ELSE <<>>
        res == [i \in 1..Len(items) |-> to_xy(items[i], size)]
        good == SelectSeq(res, LAMBDA r : r.ok)
    IN  [i \in 1..Len(good) |-> <<good[i].x, good[i].y>>]

\* lines 160-192: the caption drawn, or the exception of textwrap.wrap
draw_caption(caption) ==
    IF ~Truthy(caption) THEN [ok |-> TRUE, text |-> ""]
    ELSE IF caption.t # "str" THEN Raised("AttributeError: textwrap.wrap of a non-string")
    ELSE [ok |-> TRUE, text |-> caption.v]

\* an overlay chosen by the field that holds a result instead of by endpoint_var
Annotate_by_tag(frame) ==
    IF last_points # None
    THEN LET d == draw_points(frame, last_points, label_var)
         IN  IF d.ok THEN [ok |-> TRUE, image |-> Image(frame.id, d.marks, "")] ELSE d
    ELSE LET d == draw_caption(last_caption)
         IN  IF d.ok THEN [ok |-> TRUE, image |-> Image(frame.id, <<>>, d.text)] ELSE d

\* lines 156-216: the image a tick puts on the canvas, or the exception
Annotate(frame) ==
    IF endpoint_var = "point"
    THEN LET d == draw_points(frame, last_points, label_var)
         IN  IF d.ok THEN [ok |-> TRUE, image |-> Image(frame.id, d.marks, "")] ELSE d
    ELSE LET d == draw_caption(last_caption)
         IN  IF d.ok THEN [ok |-> TRUE, image |-> Image(frame.id, <<>>, d.text)] ELSE d

-----------------------------------------------------------------------------
(* _set_status *)

\* Tk runs the zero-delay callback master.after(0, status_var.set, text) in the
\* order of the calls; the model sets status_var at the call.  From a worker
\* thread master.after reaches the interpreter only while the main thread is in
\* mainloop(); before mainloop() and after destroy() the call raises.
TkDispatching == pc_main = "mainloop"

-----------------------------------------------------------------------------
(* _try_send_frame *)

\* the gate test of line 282 left out
GateClosed_never == FALSE

\* line 282
GateClosed == in_flight

\* thread identity; at most one is alive unless the gate fails
FreshId == CHOOSE i \in 1..(Cardinality(workers) + 1) : \A w \in workers : w.id # i

\* lines 286-296, 315: the closure of the worker started
NewWorker(cf) ==
    [id |-> FreshId, pc |-> "start", api |-> api_var, ep |-> endpoint_var,
     label |-> label_var, length |-> length_var, img |-> cf.id, ink |-> cf.ink,
     req |-> NoRequest, ret |-> None, exc |-> ""]

\* lines 279-315, for self.current_frame = cf
try_send_frame(initial, cf) ==
    IF cf = NoFrame \/ GateClosed
    THEN UNCHANGED <<in_flight, status_var, workers>>
    ELSE /\ in_flight' = TRUE
         /\ status_var' = (IF initial THEN StBootstrapping ELSE StSending)
         /\ workers' = workers \cup {NewWorker(cf)}

-----------------------------------------------------------------------------
(* The render loop: _schedule_render, _render *)

\* self.current_frame = frame: the buffer kept is the one the tick draws on
KeepsAlias_nocopy == TRUE

\* line 152: self.current_frame is a copy of frame, a buffer of its own
KeepsAlias == FALSE

\* lines 225-226 and 199-209: in point mode without points _draw_points returns
\* frame itself, and the note is then drawn on the buffer read from the camera;
\* with points (line 227) and in caption mode (line 160) it is drawn on a copy
DrawsOnFrame == endpoint_var = "point" /\ ~Truthy(last_points)

\* the buffer self.current_frame holds at the end of the tick that read frame
Held(frame) == [frame EXCEPT !.ink = KeepsAlias /\ DrawsOnFrame]

\* lines 151-220: the tick after a successful read of frame; a tick that
\* completes is rescheduled (line 143), one that raises is not
render_frame(frame) ==
    /\ current_frame' = Held(frame)
    /\ last_frame_size' = <<frame.W, frame.H>>
    /\ LET a == Annotate(frame)
       IN  IF ~a.ok
           THEN /\ tick_scheduled' = FALSE
                /\ UNCHANGED <<canvas, in_flight, status_var, workers>>
           ELSE /\ canvas' = a.image
                /\ tick_scheduled' = TRUE
                /\ IF ~in_flight
                   THEN try_send_frame(FALSE, Held(frame))
                   ELSE UNCHANGED <<in_flight, status_var, workers>>

\* _render without the return of line 149: after a failed read the tick goes on
\* to line 219 and sends the frame of an earlier tick
render_always_sends(ok, frame) ==
    IF ~ok
    THEN /\ tick_scheduled' = TRUE
         /\ UNCHANGED <<current_frame, last_frame_size, canvas>>
         /\ IF ~in_flight /\ current_frame # NoFrame
            THEN try_send_frame(FALSE, current_frame)
            ELSE /\ status_var' = StCameraFailed
                 /\ UNCHANGED <<in_flight, workers>>
    ELSE render_frame(frame)

\* _render without the test of line 147: frame is None after a failed read and
\* frame.copy() raises at line 152
render_unchecked_read(ok, frame) ==
    IF ~ok
    THEN /\ tick_scheduled' = FALSE
         /\ UNCHANGED <<status_var, current_frame, last_frame_size, canvas, in_flight,
                        workers>>
    ELSE render_frame(frame)

\* lines 145-220 for cap.read() = (ok, frame)
render(ok, frame) ==
    IF ~ok
    THEN /\ status_var' = StCameraFailed
         /\ tick_scheduled' = TRUE
         /\ UNCHANGED <<current_frame, last_frame_size, canvas, in_flight, workers>>
    ELSE render_frame(frame)

\* a tick that drops the stored result once it has run
schedule_render_consumes ==
    /\ IF ~running
       THEN /\ tick_scheduled' = FALSE
            /\ UNCHANGED <<current_frame, last_frame_size, canvas, in_flight,
                           status_var, workers>>
       ELSE \E ok \in BOOLEAN : \E frame \in (IF ok THEN Frames ELSE {NoFrame}) :
                render(ok, frame)
    /\ last_points' = None
    /\ last_caption' = None
    /\ UNCHANGED <<running, cap_open, api_var, endpoint_var, label_var, length_var,
                   edits>>

\* lines 139-143
schedule_render ==
    /\ IF ~running
       THEN /\ tick_scheduled' = FALSE
            /\ UNCHANGED <<current_frame, last_frame_size, canvas, in_flight,
                           status_var, workers>>
       ELSE \E ok \in BOOLEAN : \E frame \in (IF ok THEN Frames ELSE {NoFrame}) :
                render(ok, frame)
    /\ UNCHANGED <<running, cap_open, api_var, endpoint_var, label_var, length_var,
                   last_points, last_caption, edits>>

-----------------------------------------------------------------------------
(* The main thread *)

\* line 118: the constructor's first _schedule_render()
CtorRender ==
    /\ pc_main = "ctor_render"
    /\ schedule_render
    /\ pc_main' = "ctor_send"
    /\ UNCHANGED xyvars

\* lines 121-123 and 329: _try_send_frame(initial=True), then mainloop() starts
CtorSend ==
    /\ pc_main = "ctor_send"
    /\ try_send_frame(TRUE, current_frame)
    /\ pc_main' = "mainloop"
    /\ UNCHANGED <<tick_scheduled, running, cap_open, api_var, endpoint_var, label_var,
                   length_var, last_points, last_caption, current_frame,
                   last_frame_size, canvas, edits, xyvars>>

\* a tick of the render loop: the callback of master.after(16, self._schedule_render)
Tick ==
    /\ pc_main = "mainloop"
    /\ tick_scheduled
    /\ schedule_render
    /\ UNCHANGED <<pc_main, xyvars>>

\* lines 126-133: the entry widgets the current endpoint leaves enabled
LabelEntryEnabled == endpoint_var = "point"
LengthMenuEnabled == endpoint_var # "point"

\* the user may still edit a field
CanEdit == pc_main = "mainloop" /\ edits < MaxEdits

uiframe == <<pc_main, tick_scheduled, running, cap_open, status_var, in_flight,
             last_points, last_caption, current_frame, last_frame_size, canvas,
             workers, xyvars>>

\* the user edits the API entry
EditApi ==
    /\ CanEdit
    /\ edits' = edits + 1
    /\ \E a \in Apis \ {api_var} : api_var' = a
    /\ UNCHANGED <<endpoint_var, label_var, length_var, uiframe>>

\* the user picks the other feature (lines 83-86)
EditEndpoint ==
    /\ CanEdit
    /\ edits' = edits + 1
    /\ \E e \in Endpoints \ {endpoint_var} : endpoint_var' = e
    /\ UNCHANGED <<api_var, label_var, length_var, uiframe>>

\* the user edits the label (lines 91-92)
EditLabel ==
    /\ CanEdit
    /\ edits' = edits + 1
    /\ LabelEntryEnabled
    /\ \E l \in Labels \ {label_var} : label_var' = l
    /\ UNCHANGED <<api_var, endpoint_var, length_var, uiframe>>

\* the user picks the other caption length (lines 97-98)
EditLength ==
    /\ CanEdit
    /\ edits' = edits + 1
    /\ LengthMenuEnabled
    /\ \E l \in Lengths \ {length_var} : length_var' = l
    /\ UNCHANGED <<api_var, endpoint_var, label_var, uiframe>>

\* an on_close that releases the camera and does nothing else
on_close_release_only ==
    /\ pc_main = "mainloop"
    /\ cap_open
    /\ cap_open' = FALSE
    /\ UNCHANGED <<pc_main, running, tick_scheduled, api_var, endpoint_var, label_var,
                   length_var, status_var, in_flight, last_points, last_caption,
                   current_frame, last_frame_size, canvas, workers, edits, xyvars>>

\* lines 317-323; destroy() ends mainloop() and with it every pending callback
on_close ==
    /\ pc_main = "mainloop"
    /\ running' = FALSE
    /\ cap_open' = FALSE
    /\ tick_scheduled' = FALSE
    /\ pc_main' = "closed"
    /\ UNCHANGED <<api_var, endpoint_var, label_var, length_var, status_var, in_flight,
                   last_points, last_caption, current_frame, last_frame_size, canvas,
                   workers, edits, xyvars>>

-----------------------------------------------------------------------------
(* The worker thread: the closure worker() of _try_send_frame, lines 298-313 *)

Becomes(w, w2) == workers' = (workers \ {w}) \cup {w2}

mainframe == <<pc_main, tick_scheduled, running, cap_open, api_var, endpoint_var,
               label_var, length_var, current_frame, last_frame_size, canvas, edits,
               xyvars>>

\* lines 301/306 with 17-22 / 30-35: requests.post sends the request
WorkerCall(w) ==
    /\ w.pc = "start"
    /\ Becomes(w, [w EXCEPT !.pc = "net", !.req = RequestOf(w)])
    /\ UNCHANGED <<status_var, in_flight, last_points, last_caption, mainframe>>

\* lines 17-25 / 30-38: the request fails, or r.json() yields data and
\* _post_point / _post_caption returns (or raises on data.get)
WorkerFails(w) ==
    /\ w.pc = "net"
    /\ \E e \in ClientErrors : Becomes(w, [w EXCEPT !.pc = "except", !.exc = e])
    /\ UNCHANGED <<status_var, in_flight, last_points, last_caption, mainframe>>

WorkerPointReturns(w) ==
    /\ w.pc = "net"
    /\ w.req.url.path = "/point"
    /\ \E data \in PointData :
           Becomes(w, [w EXCEPT !.pc = "store", !.ret = post_point(data)])
    /\ UNCHANGED <<status_var, in_flight, last_points, last_caption, mainframe>>

WorkerCaptionReturns(w) ==
    /\ w.pc = "net"
    /\ w.req.url.path = "/caption"
    /\ \E data \in CaptionData :
           LET r == post_caption(data)
           IN  Becomes(w, IF r.ok THEN [w EXCEPT !.pc = "store", !.ret = r.v]
                          ELSE [w EXCEPT !.pc = "except", !.exc = r.err])
    /\ UNCHANGED <<status_var, in_flight, last_points, last_caption, mainframe>>

\* the worker reading the UI's current feature instead of its closure
WorkerEp_live(w) == endpoint_var

\* the branch of line 300 the worker takes
WorkerEp(w) == w.ep

\* the result kept in a local variable and never stored in the object
WorkerStore_local(w) ==
    /\ w.pc = "store"
    /\ Becomes(w, [w EXCEPT !.pc = "clear"])
    /\ UNCHANGED <<status_var, in_flight, last_points, last_caption, mainframe>>

\* line 302 / 307
WorkerStore(w) ==
    /\ w.pc = "store"
    /\ IF WorkerEp(w) = "point"
       THEN last_points' = w.ret /\ UNCHANGED last_caption
       ELSE last_caption' = w.ret /\ UNCHANGED last_points
    /\ Becomes(w, [w EXCEPT !.pc = "clear"])
    /\ UNCHANGED <<status_var, in_flight, mainframe>>

\* line 303 / 308
WorkerClear(w) ==
    /\ w.pc = "clear"
    /\ IF WorkerEp(w) = "point"
       THEN last_caption' = None /\ UNCHANGED last_points
       ELSE last_points' = None /\ UNCHANGED last_caption
    /\ Becomes(w, [w EXCEPT !.pc = "status"])
    /\ UNCHANGED <<status_var, in_flight, mainframe>>

NotInMainLoop == "main thread is not in main loop"

\* line 304 / 309: len(pts) may raise, and so may _set_status
WorkerStatus(w) ==
    /\ w.pc = "status"
    /\ IF WorkerEp(w) = "point" /\ ~HasLen(w.ret)
       THEN /\ Becomes(w, [w EXCEPT !.pc = "except", !.exc = "object has no len()"])
            /\ UNCHANGED status_var
       ELSE IF TkDispatching
       THEN /\ status_var' = (IF WorkerEp(w) = "point" THEN StOkPoints(PyLen(w.ret))
                              ELSE StOkCaption)
            /\ Becomes(w, [w EXCEPT !.pc = "finally"])
       ELSE /\ Becomes(w, [w EXCEPT !.pc = "except", !.exc = NotInMainLoop])
            /\ UNCHANGED status_var
    /\ UNCHANGED <<in_flight, last_points, last_caption, mainframe>>

\* a handler that resets the results
FailureClears == <<None, None>>

\* lines 310-311: the results the handler leaves behind
FailureKeeps == <<last_points, last_caption>>

\* the gate cleared after the try statement instead of in its finally clause
AfterHandlerRaised_skipped == "dead"

\* lines 312-313: the finally clause runs although the handler itself raised
AfterHandlerRaised == "finally"

\* lines 310-311
WorkerExcept(w) ==
    /\ w.pc = "except"
    /\ IF TkDispatching
       THEN /\ status_var' = StError(w.exc)
            /\ Becomes(w, [w EXCEPT !.pc = "finally"])
       ELSE /\ Becomes(w, [w EXCEPT !.pc = AfterHandlerRaised])
            /\ UNCHANGED status_var
    /\ last_points' = FailureKeeps[1]
    /\ last_caption' = FailureKeeps[2]
    /\ UNCHANGED <<in_flight, mainframe>>

\* lines 312-313, and the thread ends
WorkerFinally(w) ==
    /\ w.pc = "finally"
    /\ in_flight' = FALSE
    /\ workers' = workers \ {w}
    /\ UNCHANGED <<status_var, last_points, last_caption, mainframe>>

DoWorkerCall == \E w \in workers : WorkerCall(w)
DoWorkerFails == \E w \in workers : WorkerFails(w)
DoWorkerPointReturns == \E w \in workers : WorkerPointReturns(w)
DoWorkerCaptionReturns == \E w \in workers : WorkerCaptionReturns(w)
DoWorkerStore == \E w \in workers : WorkerStore(w)
DoWorkerClear == \E w \in workers : WorkerClear(w)
DoWorkerStatus == \E w \in workers : WorkerStatus(w)
DoWorkerExcept == \E w \in workers : WorkerExcept(w)
DoWorkerFinally == \E w \in workers : WorkerFinally(w)

\* the steps of a worker whose client call has returned or raised
WorkerCompletion ==
    \/ DoWorkerStore \/ DoWorkerClear \/ DoWorkerStatus \/ DoWorkerExcept
    \/ DoWorkerFinally

-----------------------------------------------------------------------------
(* The application *)

\* lines 65-115: the fields after the constructor's assignments
AppInit ==
    /\ pc_main = "ctor_render"
    /\ tick_scheduled = TRUE
    /\ running = TRUE
    /\ cap_open = TRUE
    /\ api_var = DefaultApi
    /\ endpoint_var = "point"
    /\ label_var = "human"
    /\ length_var = "short"
    /\ status_var = StIdle
    /\ in_flight = FALSE
    /\ last_points = None
    /\ last_caption = None
    /\ current_frame = NoFrame
    /\ last_frame_size = <<1, 1>>
    /\ canvas = NoImage
    /\ edits = 0
    /\ workers = {}

NotRun == [ok |-> FALSE, err |-> "not run"]

Init ==
    /\ AppInit
    /\ xy_p = None
    /\ xy_size = <<1, 1>>
    /\ xy_res = NotRun
    /\ xy_drawn = NotRun

Next ==
    \/ CtorRender
    \/ CtorSend
    \/ Tick
    \/ EditApi
    \/ EditEndpoint
    \/ EditLabel
    \/ EditLength
    \/ on_close
    \/ DoWorkerCall
    \/ DoWorkerFails
    \/ DoWorkerPointReturns
    \/ DoWorkerCaptionReturns
    \/ DoWorkerStore
    \/ DoWorkerClear
    \/ DoWorkerStatus
    \/ DoWorkerExcept
    \/ DoWorkerFinally

Spec == Init /\ [][Next]_vars

\* a started thread runs: once the client call is over, the worker's remaining
\* steps are taken
FairSpec == Spec /\ WF_vars(WorkerCompletion)

-----------------------------------------------------------------------------
(* The script: the application until its process ends *)

\* lines 326-329 with 315: mainloop() has returned, the script ends and the
\* interpreter exits; the worker threads are daemon threads and are stopped
\* wherever they are
ProcessExit ==
    /\ pc_main = "closed"
    /\ pc_main' = "exited"
    /\ workers' = {}
    /\ UNCHANGED <<tick_scheduled, running, cap_open, api_var, endpoint_var, label_var,
                   length_var, status_var, in_flight, last_points, last_caption,
                   current_frame, last_frame_size, canvas, edits, xyvars>>

NextExit == Next \/ ProcessExit

ExitSpec == Init /\ [][NextExit]_vars

-----------------------------------------------------------------------------
(* The coordinate normaliser on its own *)

XYSizes == {<<640, 480>>, <<3, 2>>, <<1, 1>>}
XYCoords == (-Den .. 2 * Den)
            \cup {10 * Den, 479 * Den, 480 * Den, 639 * Den, 640 * Den, 700 * Den}
XKeys == {"x", "cx", "px"}
YKeys == {"y", "cy", "py"}
XYPlain == {Rec(kx, x, ky, y) : kx \in XKeys, x \in XYCoords, ky \in {"y"}, y \in XYCoords}
           \cup {Rec(kx, x, ky, y) : kx \in {"cx"}, x \in XYCoords, ky \in YKeys, y \in XYCoords}
XYNested == {Dict("point" :> r) : r \in {Rec("x", x, "y", y) : x \in XYCoords, y \in XYCoords}}
XYOdd == { Dict(<<>>),                                              \* {}
           RecNoY,
           Dict("cy" :> Num(Den)),                                  \* {"cy": 1}
           Dict(("x" :> None) @@ ("cx" :> Num(Den)) @@ ("y" :> Num(Den))),
           Dict(("x" :> Num(2 * Den)) @@ ("cx" :> Num(3 * Den)) @@ ("y" :> Num(Den))),
           Dict(("x" :> Str("left")) @@ ("y" :> Num(Den))),
           Dict(("point" :> Num(Den)) @@ ("x" :> Num(Den)) @@ ("y" :> Num(Den))),
           Dict("point" :> Dict("x" :> Num(Den))),
           Str("x"), Num(Den), None }
XYRecords == XYPlain \cup XYNested \cup XYOdd

InitXY ==
    /\ AppInit
    /\ xy_p \in XYRecords
    /\ xy_size \in XYSizes
    /\ xy_res = NotRun
    /\ xy_drawn = NotRun

\* _to_xy(xy_p, xy_size) is called
Normalize ==
    /\ xy_res = NotRun
    /\ xy_res' = to_xy(xy_p, xy_size)
    /\ UNCHANGED <<xy_p, xy_size, xy_drawn, appvars>>

\* the batches of a /point result list that hold the record p
Batches(p) == { <<p>>, <<RecNoY, p>>, <<p, RecFar>>, <<p, RecNoY, RecCenter>> }

\* _draw_points (and show_with_points) is called on a batch holding xy_p
DrawBatch ==
    /\ xy_drawn = NotRun
    /\ \E b \in Batches(xy_p) :
           LET f == Frame(1, xy_size[1], xy_size[2])
               d == draw_points(f, List(b), "human")
           IN  xy_drawn' =
                 [ok |-> d.ok, batch |-> b,
                  marks |-> IF d.ok THEN d.marks ELSE <<>>,
                  strokes |-> IF d.ok
                              THEN [i \in 1..Len(d.marks) |-> Strokes(d.marks[i], f.W, f.H)]
                              ELSE <<>>,
                  plot |-> show_with_points(xy_size, List(b))]
    /\ UNCHANGED <<xy_p, xy_size, xy_res, appvars>>

NextXY == Normalize \/ DrawBatch

SpecXY == InitXY /\ [][NextXY]_vars

-----------------------------------------------------------------------------
(* Properties of the coordinate normaliser *)

\* the record read, and its two raw coordinates in units of 1/Den
XYInner == IF xy_p.t = "dict" THEN Unwrap(xy_p) ELSE xy_p
RawX == Get(XYInner, "x", Get(XYInner, "cx", Get(XYInner, "px", None))).v
RawY == Get(XYInner, "y", Get(XYInner, "cy", Get(XYInner, "py", None))).v
XYWidth == xy_size[1]
XYHeight == xy_size[2]
XYAccepted == xy_res.ok
XYInUnit == XYAccepted /\ 0 <= RawX /\ RawX <= Den /\ 0 <= RawY /\ RawY <= Den
Smaller(a, b) == IF a <= b THEN a ELSE b
Larger(a, b) == IF a >= b THEN a ELSE b

\* C9 as stated: for every accepted record with both coordinates in [0,1], 1
\* included, _to_xy returns exactly (x * W, y * H).
C9_ExactScaling ==
    XYInUnit => /\ xy_res.x = RawX * XYWidth
                /\ xy_res.y = RawY * XYHeight

\* C9 amended: for every accepted record with both coordinates in [0,1], _to_xy
\* returns (min(x * W, W - 1), min(y * H, H - 1)): the scaled point, each axis
\* cut to dim - 1.
C9_ScalingThenClamp ==
    XYInUnit => /\ xy_res.x = Smaller(RawX * XYWidth, (XYWidth - 1) * Den)
                /\ xy_res.y = Smaller(RawY * XYHeight, (XYHeight - 1) * Den)

\* {"x": 0.5, "y": 0.5} on 640 x 480 has been normalised to (320, 240)
C9_Witness ==
    /\ xy_p = RecCenter
    /\ xy_size = <<640, 480>>
    /\ xy_res = Point(320 * Den, 240 * Den)

\* C10: every point _to_xy returns lies in [0, W-1] x [0, H-1]; absolute
\* coordinates (max(x, y) > 1) are clamped per axis, and those already inside
\* the frame are returned unchanged.
C10_ClampedIntoFrame ==
    XYAccepted =>
        /\ 0 <= xy_res.x /\ xy_res.x <= (XYWidth - 1) * Den
        /\ 0 <= xy_res.y /\ xy_res.y <= (XYHeight - 1) * Den
        /\ (RawX > Den \/ RawY > Den) =>
              /\ xy_res.x = Larger(0, Smaller(RawX, (XYWidth - 1) * Den))
              /\ xy_res.y = Larger(0, Smaller(RawY, (XYHeight - 1) * Den))
              /\ (0 <= RawX /\ RawX <= (XYWidth - 1) * Den) => xy_res.x = RawX
              /\ (0 <= RawY /\ RawY <= (XYHeight - 1) * Den) => xy_res.y = RawY

\* {"cx": 700, "cy": 10} on 640 x 480 has been normalised to (639, 10)
C10_Witness ==
    /\ xy_p = RecFar
    /\ xy_size = <<640, 480>>
    /\ xy_res = Point(639 * Den, 10 * Den)

-----------------------------------------------------------------------------
(* Properties of the overlay *)

\* the record has no x-key or no y-key, directly or in its nested "point" object
LacksKey(p) ==
    /\ p.t = "dict"
    /\ LET q == Unwrap(p)
       IN  DOMAIN q.v \cap XKeys = {} \/ DOMAIN q.v \cap YKeys = {}
FormatError == Raised("ValueError: Unsupported point format")
\* the records of the batch drawn that _to_xy accepts, in the batch's order
Kept == SelectSeq(xy_drawn.batch, LAMBDA p : to_xy(p, xy_size).ok)

\* C11: _to_xy of a record without an x-key or without a y-key raises the
\* format error; a batch holding such records is drawn without an exception:
\* they are skipped, and every record _to_xy accepts is normalised and drawn, in
\* the order of the batch, by _draw_points as by show_with_points.
C11_MissingKeySkipped ==
    /\ (xy_res # NotRun /\ LacksKey(xy_p)) => xy_res = FormatError
    /\ xy_drawn # NotRun =>
          /\ xy_drawn.ok
          /\ \A i \in 1..Len(Kept) : ~LacksKey(Kept[i])
          /\ Len(xy_drawn.marks) = Len(Kept)
          /\ Len(xy_drawn.strokes) = Len(Kept)
          /\ Len(xy_drawn.plot) = Len(Kept)
          /\ \A i \in 1..Len(Kept) :
                LET r == to_xy(Kept[i], xy_size)
                IN  /\ xy_drawn.marks[i] = Mark(r.x, r.y, "human")
                    /\ xy_drawn.plot[i] = <<r.x, r.y>>

\* {"x": 1} was refused, and of the batch [{"x": 1}, {"x": 1}, {"x": 0.5,
\* "y": 0.5}] on 640 x 480 only the last record was drawn, at (320, 240)
C11_Witness ==
    /\ xy_p = RecNoY
    /\ xy_size = <<640, 480>>
    /\ xy_res = FormatError
    /\ xy_drawn # NotRun
    /\ xy_drawn.batch = <<RecNoY, RecNoY, RecCenter>>
    /\ xy_drawn.marks = <<Mark(320 * Den, 240 * Den, "human")>>

\* the pixel (x, y) lies in the frame
InFrame(x, y) == 0 <= x /\ x <= XYWidth - 1 /\ 0 <= y /\ y <= XYHeight - 1

\* C12: every drawing call made for a normalised point has its coordinates
\* inside the frame: both ends of the two marker strokes, the text anchor, and
\* the label box, whose corners satisfy 0 <= x1 <= x2 <= W-1 and
\* 0 <= y1 <= y2 <= H-1.
C12_DrawingsInsideFrame ==
    xy_drawn # NotRun =>
        \A i \in 1..Len(xy_drawn.strokes) :
            LET s == xy_drawn.strokes[i]
            IN  /\ InFrame(s.line1[1], s.line1[2]) /\ InFrame(s.line1[3], s.line1[4])
                /\ InFrame(s.line2[1], s.line2[2]) /\ InFrame(s.line2[3], s.line2[4])
                /\ InFrame(s.anchor[1], s.anchor[2])
                /\ 0 <= s.box[1] /\ s.box[1] <= s.box[3] /\ s.box[3] <= XYWidth - 1
                /\ 0 <= s.box[2] /\ s.box[2] <= s.box[4] /\ s.box[4] <= XYHeight - 1

-----------------------------------------------------------------------------
(* Properties of the dispatch *)

\* the worker of thread i before and after a step
Same(w, w2) == w2.id = w.id
Intent(w) == <<w.api, w.ep, w.label, w.length, w.img>>
\* the client call of w is over: it returned a payload or raised
ClientDone(w) == w.pc \notin {"start", "net"}
\* the client call of w raised
ClientRaised(w) == w.pc \in {"except", "finally"} /\ w.exc \in ClientErrors

\* C1: at most one dispatch worker, and so at most one request to the
\* inference endpoint, is outstanding in any reachable state, and the gate is
\* closed for as long as that worker has not cleared it.
C1_SingleFlight ==
    /\ Cardinality(workers) <= 1
    /\ Cardinality({w \in workers : w.pc = "net"}) <= 1
    /\ workers # {} => in_flight

\* a request is outstanding after an earlier dispatch has delivered its points
C1_Witness ==
    /\ \E w \in workers : w.pc = "net"
    /\ last_points = PointsA
    /\ pc_main = "mainloop"

\* C2: _try_send_frame called while in_flight is set (the constructor's call,
\* the only one not guarded by line 219) starts no worker, makes no request,
\* publishes no status and leaves in_flight, the results and the latest frame
\* unchanged.
C2_NoopWhenInFlight ==
    [][(pc_main = "ctor_send" /\ pc_main' = "mainloop" /\ in_flight) =>
          /\ workers' = workers
          /\ status_var' = status_var
          /\ in_flight' = in_flight
          /\ last_points' = last_points
          /\ last_caption' = last_caption
          /\ current_frame' = current_frame]_vars

\* the constructor is about to call _try_send_frame while a request is in flight
C2_Witness ==
    /\ pc_main = "ctor_send"
    /\ in_flight
    /\ \E w \in workers : w.pc = "net"

Malformed(w) == w.ep = "point" /\ w.pc \in {"store", "clear", "status"} /\ w.ret.t # "list"

\* C4: while a dispatch whose /point payload is malformed completes, the stored
\* results are left untouched.
C4_MalformedKeepsResults ==
    [][\A w \in workers : Malformed(w) =>
          /\ last_points' = last_points
          /\ last_caption' = last_caption]_vars

\* C5: as long as the window is open and running is set, a tick of the render
\* loop is scheduled, whatever a capture or a dispatch did.
C5_RenderLoopSurvives ==
    (pc_main = "mainloop" /\ running) => tick_scheduled

\* C6: while a request is outstanding, however long, the next render tick is
\* scheduled and can run.
C6_TicksWhileInFlight ==
    (pc_main = "mainloop" /\ running /\ \E w \in workers : ~ClientDone(w))
        => ENABLED Tick

C8_IntentCapturedAtDispatch ==
    [][/\ \A w2 \in workers' :
             (\A w \in workers : ~Same(w, w2)) =>
                 Intent(w2) = <<api_var, endpoint_var, label_var, length_var, current_frame'.id>>
       /\ \A w \in workers : \A w2 \in workers' : Same(w, w2) =>
             /\ Intent(w2) = Intent(w)
             /\ (w.pc = "start" /\ w2.pc = "net") =>
                   /\ w2.req.url = [base |-> w.api.base, slashes |-> 0,
                                    path |-> IF w.ep = "point" THEN "/point" ELSE "/caption"]
                   /\ w2.req.field = (IF w.ep = "point" THEN "label" ELSE "length")
                   /\ w2.req.value = (IF w.ep = "point" THEN w.label ELSE w.length)
                   /\ w2.req.file = w.img
             /\ (w.pc = "store" /\ w2.pc = "clear") =>
                   IF w.ep = "point"
                   THEN last_points' = w.ret /\ last_caption' = last_caption
                   ELSE last_caption' = w.ret /\ last_points' = last_points
             /\ (w.pc = "clear" /\ w2.pc = "status") =>
                   IF w.ep = "point"
                   THEN last_caption' = None /\ last_points' = last_points
                   ELSE last_points' = None /\ last_caption' = last_caption]_vars

\* a point request has stored its points although the UI now shows "caption"
\* and another address
C8_Witness ==
    \E w \in workers :
        /\ w.pc = "clear"
        /\ w.ep = "point" /\ endpoint_var = "caption"
        /\ w.api # api_var
        /\ w.req.url.base = w.api.base
        /\ last_points = w.ret /\ w.ret = PointsA

\* the positions of a worker from which its finally clause is still reached
WorkerRuns(w) == w.pc \in {"start", "net", "store", "clear", "status", "except", "finally"}

-----------------------------------------------------------------------------
(* Properties of the render loop *)

\* a step is a run of _schedule_render: the constructor's, or a tick's
IsTick == CtorRender \/ Tick
\* a tick that runs with the gate open
IdleTick == IsTick /\ running /\ ~in_flight
\* the step starts a worker for the latest frame and announces it
Sends(status) ==
    /\ in_flight'
    /\ status_var' = status
    /\ \E w \in workers' : /\ workers' = workers \cup {w}
                            /\ w \notin workers
                            /\ w.pc = "start"
                            /\ w.img = current_frame'.id
\* the step starts no worker and leaves the gate
SendsNothing == workers' = workers /\ in_flight' = in_flight

\* C14 as stated: every tick that runs while the gate is open and a captured
\* frame is available issues a new request, a tick whose capture read failed
\* included.
C14_EveryIdleTickSends ==
    [][(IdleTick /\ current_frame # NoFrame) => Sends(StSending)]_vars

\* C14 amended: a tick attempts a send only as its last step.  A tick that runs
\* with the gate open either fails its capture read, and then publishes "Camera
\* read failed" and starts no request although a frame of an earlier tick is
\* available; or raises while drawing, and then starts no request and is not
\* rescheduled; or shows the frame it captured under the overlay of the stored
\* result and issues a request for that frame.
C14_IdleTickSendsAfterGoodRead ==
    [][IdleTick =>
          \/ /\ tick_scheduled'
             /\ status_var' = StCameraFailed
             /\ current_frame' = current_frame
             /\ SendsNothing
          \/ /\ ~tick_scheduled'
             /\ ~Annotate(current_frame').ok
             /\ status_var' = status_var
             /\ SendsNothing
          \/ /\ tick_scheduled'
             /\ current_frame' \in Frames
             /\ Annotate(current_frame').ok
             /\ canvas' = Annotate(current_frame').image
             /\ Sends(StSending)]_vars

\* the gate is open, the frame of an earlier tick is held, and the tick that
\* has just run failed its capture read
C14_Witness ==
    /\ pc_main = "mainloop"
    /\ ~in_flight
    /\ workers = {}
    /\ current_frame # NoFrame
    /\ status_var = StCameraFailed
    /\ last_points = PointsA

\* the tick changes nothing but the status
OnlyStatusChanges ==
    UNCHANGED <<tick_scheduled, running, cap_open, api_var, endpoint_var, label_var,
                length_var, in_flight, last_points, last_caption, current_frame,
                last_frame_size, canvas, workers, edits>>

\* C15: a tick is either a tick whose capture read failed, which publishes
\* "Camera read failed", leaves the latest frame, the frame size, the image
\* shown and the results as they were and is rescheduled, so that nothing but
\* the status tells the next tick from the one before; or a tick whose read
\* succeeded, which takes the new frame and its size and draws it as usual.
C15_FailedReadKeepsState ==
    [][(IsTick /\ running) =>
          \/ /\ status_var' = StCameraFailed
             /\ tick_scheduled'
             /\ OnlyStatusChanges
          \/ /\ current_frame' \in Frames
             /\ last_frame_size' = <<current_frame'.W, current_frame'.H>>
             /\ last_points' = last_points /\ last_caption' = last_caption
             /\ LET a == Annotate(current_frame')
                IN  IF a.ok THEN canvas' = a.image /\ tick_scheduled'
                    ELSE canvas' = canvas /\ ~tick_scheduled']_vars

\* a capture read has failed while a request is outstanding and the points of
\* an earlier dispatch are on the screen; the next tick is scheduled
C15_Witness ==
    /\ pc_main = "mainloop"
    /\ status_var = StCameraFailed
    /\ tick_scheduled
    /\ in_flight
    /\ current_frame \in Frames
    /\ canvas.frame = current_frame.id
    /\ canvas.marks # <<>>

-----------------------------------------------------------------------------
(* Properties of the Result Store *)

\* the worker has stored its result and published "OK"
Succeeded(w) == w.pc = "finally" /\ w.exc = ""
\* the Result Store holds the result of w, tagged by the mode w was sent with
HoldsResultOf(w) ==
    IF w.ep = "point" THEN last_points = w.ret /\ last_caption = None
    ELSE last_caption = w.ret /\ last_points = None

\* C16: when a dispatch that succeeded clears the gate, the Result Store
\* already holds its result; and every write to the Result Store is made by the
\* one outstanding worker while the gate is set.  That worker belongs to the
\* dispatch started last (no dispatch starts before the gate is cleared), so
\* results are applied in send order, and what the render loop finds when it
\* sees the gate open is the result of the last dispatch that succeeded.
C16_StoredBeforeGateCleared ==
    [][/\ \A w \in workers : (Succeeded(w) /\ w \notin workers') =>
             /\ in_flight /\ ~in_flight'
             /\ HoldsResultOf(w)
             /\ last_points' = last_points /\ last_caption' = last_caption
       /\ (last_points' # last_points \/ last_caption' # last_caption) =>
             /\ in_flight /\ in_flight'
             /\ \E w \in workers : workers = {w} /\ w.pc \in {"store", "clear"}]_vars

\* a second dispatch has replaced the points of the first by its own two and
\* is about to clear the gate
C16_Witness ==
    \E w \in workers :
        /\ Succeeded(w)
        /\ w.ep = "point" /\ w.ret = PointsB
        /\ last_points = PointsB /\ last_caption = None
        /\ status_var = StOkPoints(2)
        /\ canvas.marks = <<Mark(320 * Den, 240 * Den, "human")>>
        /\ in_flight

\* the Result Store changes in the step
StoreChanges == last_points' # last_points \/ last_caption' # last_caption
\* the step is a write of a worker: line 302/307 or line 303/308
WorkerWrites ==
    \E w \in workers : \E w2 \in workers' :
        /\ Same(w, w2)
        /\ \/ w.pc = "store" /\ w2.pc = "clear"
           \/ w.pc = "clear" /\ w2.pc = "status"

\* C17: last_points and last_caption are left as they are by every render
\* tick, by every call of _try_send_frame, whether it sends or not, by the
\* user's edits and by on_close; they change only in the two writes of a
\* worker that completes its dispatch.
C17_ResultsPersist ==
    [][/\ (IsTick \/ CtorSend \/ EditApi \/ EditEndpoint \/ EditLabel \/ EditLength
            \/ on_close) => ~StoreChanges
       /\ StoreChanges => WorkerWrites]_vars

\* the caption of an earlier dispatch is stored and shown while the next
\* request is outstanding
C17_Witness ==
    /\ pc_main = "mainloop"
    /\ last_caption = Str("a cat")
    /\ canvas.text = "a cat"
    /\ \E w \in workers : w.pc = "net"

\* the step puts a new image on the canvas
Draws == IsTick /\ canvas' # canvas
\* the Result Store holds points only, or a caption only
PointsStored == last_points \in {PointsA, PointsB} /\ last_caption = None
CaptionStored == last_caption = Str("a cat") /\ last_points = None

\* C18 as stated: the result of a dispatch is stored by the mode it was sent
\* with and displayed by that mode: stored points are drawn, and a stored
\* caption is written, by every tick that draws, whatever mode the UI shows by
\* then.
C18_DisplayedBySentMode ==
    /\ [](\A w \in workers : w.pc = "status" => HoldsResultOf(w))
    /\ [][Draws => /\ PointsStored => canvas'.marks # <<>>
                   /\ CaptionStored => canvas'.text = "a cat"]_vars

\* C18 amended: the result is stored by the mode it was sent with, but it is
\* displayed by the mode the UI shows at the tick: a tick in caption mode draws
\* no points and a tick in point mode writes no caption, so a result that
\* completes after the user switched the mode is not displayed while the UI
\* stays in the other mode.
C18_StoredBySentDisplayedByCurrent ==
    /\ [](\A w \in workers : w.pc = "status" => HoldsResultOf(w))
    /\ [][Draws =>
             /\ endpoint_var = "caption" =>
                   /\ canvas'.marks = <<>>
                   /\ PointsStored => canvas'.text = ""
                   /\ CaptionStored => canvas'.text = "a cat"
             /\ endpoint_var = "point" =>
                   /\ canvas'.text = ""
                   /\ CaptionStored => canvas'.marks = <<>>
                   /\ PointsStored => canvas'.marks # <<>>]_vars

\* the points of a dispatch sent in point mode are stored; the UI shows
\* "caption", and the tick that sent the next request, a caption request, drew
\* its frame without them
C18_Witness ==
    /\ endpoint_var = "caption"
    /\ PointsStored
    /\ \E w \in workers : /\ w.ep = "caption"
                          /\ w.pc = "net"
                          /\ canvas = Image(w.img, <<>>, "")

-----------------------------------------------------------------------------
(* Properties of the shutdown *)

\* after on_close: no tick is scheduled or runs, so no frame is read or shown,
\* and no dispatch is started
NoTickAfterClose ==
    /\ [](~cap_open => (~running /\ ~tick_scheduled /\ pc_main \in {"closed", "exited"}))
    /\ [][~cap_open =>
             /\ current_frame' = current_frame
             /\ last_frame_size' = last_frame_size
             /\ canvas' = canvas
             /\ status_var' = StCameraFailed => status_var = StCameraFailed
             /\ Cardinality(workers') <= Cardinality(workers)
             /\ in_flight' => in_flight]_vars
\* on_close leaves the dispatch in flight alone
CloseCancelsNothing ==
    [][(cap_open /\ ~cap_open') => (workers' = workers /\ in_flight' = in_flight)]_vars

\* C19 as stated: after on_close no tick is scheduled, no capture read happens
\* and no dispatch is started, and a dispatch in flight is not cancelled: its
\* worker ends only by running to completion, clearing the gate.
C19_InFlightCompletesAfterClose ==
    /\ NoTickAfterClose
    /\ CloseCancelsNothing
    /\ [][(workers # {} /\ workers' = {}) => ~in_flight']_vars

\* C19 amended: after on_close no tick is scheduled, no capture read happens
\* and no dispatch is started; on_close does not cancel a dispatch in flight,
\* whose worker goes on and clears the gate if it completes before the process
\* ends; the worker that has not completed by then is stopped with the process
\* and the gate is left set.
C19_InFlightCompletesUnlessExit ==
    /\ NoTickAfterClose
    /\ CloseCancelsNothing
    /\ [][(workers # {} /\ workers' = {}) =>
             IF pc_main' = "exited" THEN pc_main = "closed" /\ in_flight' /\ in_flight
             ELSE ~in_flight' /\ \E w \in workers : w.pc = "finally"]_vars

\* the window is closed and the dispatch that was in flight has completed
\* since: its status could not be published and the gate is open
C19_Witness ==
    /\ pc_main = "closed"
    /\ ~cap_open
    /\ status_var = StSending
    /\ workers = {}
    /\ ~in_flight
    /\ last_points = PointsA

-----------------------------------------------------------------------------
(* Properties of the start *)

\* C20: the first request of a session (the one sent while no frame had been
\* captured before the step) is issued by the constructor's call
\* _try_send_frame(initial=True) and announced with "Bootstrapping...".
C20_FirstSendIsBootstrap ==
    [][(~in_flight /\ in_flight' /\ current_frame = NoFrame) =>
          /\ pc_main = "ctor_send"
          /\ status_var' = StBootstrapping]_vars

-----------------------------------------------------------------------------
(* Properties of what is shown *)

\* the worker of a point dispatch has stored its points, which are still the
\* stored ones
PointsOf(w) == w.ep = "point" /\ w.pc \in {"clear", "status"} /\ last_points = w.ret

\* C21: the points of a dispatch are drawn with the label the dispatch was sent
\* with, also when the user has edited the label since.
C21_PointsDrawnWithSentLabel ==
    [][Draws => \A w \in workers : PointsOf(w) =>
                   \A i \in 1..Len(canvas'.marks) : canvas'.marks[i].label = w.label]_vars

\* C22: in every state in which a render tick can run, at most one of
\* last_points and last_caption holds a result, also between the two writes of
\* a worker.
C22_OneResultAtMost ==
    (pc_main = "mainloop" /\ running /\ tick_scheduled)
        => (last_points = None \/ last_caption = None)

-----------------------------------------------------------------------------
(* Properties of the frame held for dispatch *)

\* C23: the frame held for dispatch is never drawn on: self.current_frame and
\* the snapshot of every worker and request carry no overlay; the snapshot of a
\* dispatch is the frame captured last when it is sent; and it stays what it
\* is while later ticks capture and draw other frames.
C23_SnapshotIsRawFrame ==
    /\ [](/\ ~current_frame.ink
          /\ \A w \in workers : ~w.ink /\ ~w.req.overlay)
    /\ [][/\ \A w2 \in workers' : (\A w \in workers : ~Same(w, w2)) =>
                 /\ w2.img = current_frame'.id
                 /\ IsTick => canvas'.frame = w2.img
          /\ \A w \in workers : \A w2 \in workers' : Same(w, w2) =>
                 /\ w2.img = w.img /\ w2.ink = w.ink
                 /\ w.pc = "net" => w2.req = w.req
                 /\ (w.pc = "start" /\ w2.pc = "net") =>
                       (w2.req.file = w.img /\ ~w2.req.overlay)]_vars

\* a request sent by a tick that drew its note on the buffer read from the
\* camera (point mode, no points stored) is outstanding, and a later tick has
\* captured and shown another frame
C23_Witness ==
    /\ endpoint_var = "point"
    /\ last_points = None
    /\ \E w \in workers : /\ w.pc = "net"
                          /\ w.ep = "point"
                          /\ w.req.file = w.img /\ ~w.req.overlay
                          /\ current_frame.id # w.img
                          /\ canvas.frame = current_frame.id

=============================================================================
